---------------------------- MODULE Spec2Model ----------------------------
(***************************************************************************)
(* A model of liburing's barrier.h: the memory-visibility primitives       *)
(* IO_URING_WRITE_ONCE / IO_URING_READ_ONCE, io_uring_smp_store_release /  *)
(* io_uring_smp_load_acquire and the fences, in their two realizations:    *)
(*                                                                         *)
(*   - the C macros (compiler barrier + volatile access + x86 fence        *)
(*     instructions), run on an x86 machine with per-context FIFO store    *)
(*     buffers (total store order), built for i386 or x86_64;              *)
(*   - the C++ templates (std::atomic with relaxed / release / acquire     *)
(*     order), run on a machine of timestamped messages and per-context    *)
(*     views.                                                              *)
(*                                                                         *)
(* A client program (a litmus test) is a list of statements per context.   *)
(* Each statement is expanded as the header expands it, into the memory    *)
(* operations and barriers it is made of.  A context may issue an          *)
(* operation ahead of earlier ones only when neither the compiler nor the  *)
(* memory order forbids it.                                                *)
(***************************************************************************)
EXTENDS Integers, Sequences, FiniteSets, TLC

VARIABLES build,   \* "c_i386", "c_x86_64" (the #else branch) or "cxx" (#ifdef __cplusplus)
          test,    \* the client program being run: [name, n]
          code,    \* per context, the operations its statements expand to
          done,    \* per context, the indices of code[c] already issued
          regs,    \* per context, the values its reads returned
          mem,     \* C build: memory, a byte per address
          buf,     \* C build: per context, the FIFO store buffer
          stack,   \* C build: per context, the stack word the locked add targets
          hist,    \* C++ build: per word, the sequence of messages written to it
          tview,   \* C++ build: per context and word, the oldest message it may still read
          hung     \* per context: spinning on a value the compiler keeps in a register

vars == <<build, test, code, done, regs, mem, buf, stack, hist, tview, hung>>

Ctx == {1, 2}

Builds == {"c_i386", "c_x86_64", "cxx"}

\* Bounds of the client programs.
MaxRounds == 2      \* rounds of the publisher in the indexed message-passing test
MaxVal == 2         \* values written in the read-own-write test
MaxWrites == 2      \* writes of the publisher in the coherence test

---------------------------------------------------------------------------
(* Values are little-endian byte tuples, so that a value has a width.       *)

Val(n, w) == [i \in 1..w |-> IF i = 1 THEN n ELSE 0]

Pat(b, w) == [i \in 1..w |-> b]

Unset(w) == [i \in 1..w |-> -1]

NoBytes == << >>

Max(S) == CHOOSE x \in S : \A y \in S : y <= x

RECURSIVE Flatten(_)
Flatten(ss) == IF ss = << >> THEN << >> ELSE Head(ss) \o Flatten(Tail(ss))

---------------------------------------------------------------------------
(* A shared word of a client program, and a statement of it.                *)

Word(name, addr, width, init) ==
    [name |-> name, addr |-> addr, width |-> width, init |-> init]

NoVar == Word(<<"none", 0>>, -1, 0, NoBytes)

NoReg == <<"none", 0>>

\* op: what the client calls; var: the word; val: the value stored;
\* reg: where a read's result goes; until: a read repeated until it returns this.
Stmt(op, var, val, reg, until) ==
    [op |-> op, var |-> var, val |-> val, reg |-> reg, until |-> until]

---------------------------------------------------------------------------
(* The operations the header's macros and templates are made of.            *)

Op(k, vol, order, var, bytes) ==
    [k |-> k, vol |-> vol, order |-> order, name |-> var.name,
     addr |-> var.addr, width |-> IF k = "st" THEN Len(bytes) ELSE var.width,
     bytes |-> bytes, reg |-> NoReg, off |-> 0, rw |-> var.width,
     until |-> NoBytes, src |-> "none"]

\* barrier.h:60  __asm__ __volatile__("": : :"memory")
io_uring_barrier == << Op("cbar", TRUE, "none", NoVar, NoBytes) >>

\* barrier.h:63  *((volatile __typeof(val) *)(&(var))) = (val): one volatile
\* store at the address of var, as wide as val.
IO_URING_WRITE_ONCE(var, val) == << Op("st", TRUE, "none", var, val) >>

\* A faulty variant: the read without the volatile qualifier
READ_ONCE_not_volatile(var) == << Op("ld", FALSE, "none", var, NoBytes) >>

\* barrier.h:65  *((volatile __typeof(var) *)(&(var))): one volatile load.
IO_URING_READ_ONCE(var) == << Op("ld", TRUE, "none", var, NoBytes) >>

\* barrier.h:69-71  mfence / lfence / sfence with a "memory" clobber
io_uring_mb == << Op("mfence", TRUE, "none", NoVar, NoBytes) >>

io_uring_rmb == << Op("lfence", TRUE, "none", NoVar, NoBytes) >>

io_uring_wmb == << Op("sfence", TRUE, "none", NoVar, NoBytes) >>

\* A stronger variant: the store fence as a full fence instruction
smp_wmb_full_fence == io_uring_mb

\* barrier.h:72-73
io_uring_smp_rmb == io_uring_barrier

io_uring_smp_wmb == io_uring_barrier

\* barrier.h:74-80  lock; addl $0,0(%esp)  or  lock; addl $0,-132(%rsp)
StackOffset(b) == IF b = "c_i386" THEN 0 ELSE -132

\* A faulty variant: a full fence that only restrains the compiler
smp_mb_compiler_only(b) == io_uring_barrier

\* A faulty variant: a full fence whose locked add changes the stack word
smp_mb_adds_one(b) ==
    << [Op("lockadd", TRUE, "none", NoVar, Val(1, 4)) EXCEPT !.addr = StackOffset(b)] >>

io_uring_smp_mb(b) ==
    << [Op("lockadd", TRUE, "none", NoVar, Val(0, 4)) EXCEPT !.addr = StackOffset(b)] >>

\* A stronger variant: a release store that ends with a full fence
store_release_fenced(p, v) ==
    io_uring_barrier \o IO_URING_WRITE_ONCE(p, v) \o io_uring_mb

\* A faulty variant: a release store with the barrier after the write
store_release_barrier_last(p, v) == IO_URING_WRITE_ONCE(p, v) \o io_uring_barrier

\* A faulty variant: a release store that leaves the compiler barrier out
store_release_without_barrier(p, v) == IO_URING_WRITE_ONCE(p, v)

\* barrier.h:82-86  barrier, then the write
io_uring_smp_store_release(p, v) == io_uring_barrier \o IO_URING_WRITE_ONCE(p, v)

\* A faulty variant: an acquire load that leaves the compiler barrier out
load_acquire_without_barrier(p) == IO_URING_READ_ONCE(p)

\* barrier.h:88-93  the read, then the barrier; the value is the read's
io_uring_smp_load_acquire(p) == IO_URING_READ_ONCE(p) \o io_uring_barrier

\* barrier.h:27-54  the C++ templates: one std::atomic operation each
cxx_IO_URING_WRITE_ONCE(var, val) == << Op("st", TRUE, "relaxed", var, val) >>

cxx_IO_URING_READ_ONCE(var) == << Op("ld", TRUE, "relaxed", var, NoBytes) >>

\* A faulty variant: the release store done with relaxed order
cxx_store_release_relaxed(p, v) == << Op("st", TRUE, "relaxed", p, v) >>

cxx_io_uring_smp_store_release(p, v) == << Op("st", TRUE, "release", p, v) >>

cxx_io_uring_smp_load_acquire(p) == << Op("ld", TRUE, "acquire", p, NoBytes) >>

\* An ordinary (unguarded) access of the client, in either language.
PlainWrite(var, val) == << Op("st", FALSE, "plain", var, val) >>

PlainRead(var) == << Op("ld", FALSE, "plain", var, NoBytes) >>

---------------------------------------------------------------------------
(* From a client's statements to the operations a context runs.             *)

IsCxx(b) == b = "cxx"

\* The C branch built for a machine that is not x86: one whose processor may
\* issue a context's stores, and its loads, in another order than the program's.
WeakBuilds == {"c_weak"}

IsWeak(b) == b \in WeakBuilds

\* The statement's call, expanded by the branch of the header the build selects.
Call(b, s) ==
    CASE s.op = "WRITE_ONCE" ->
            IF IsCxx(b) THEN cxx_IO_URING_WRITE_ONCE(s.var, s.val)
                        ELSE IO_URING_WRITE_ONCE(s.var, s.val)
      [] s.op = "READ_ONCE" ->
            IF IsCxx(b) THEN cxx_IO_URING_READ_ONCE(s.var)
                        ELSE IO_URING_READ_ONCE(s.var)
      [] s.op = "store_release" ->
            IF IsCxx(b) THEN cxx_io_uring_smp_store_release(s.var, s.val)
                        ELSE io_uring_smp_store_release(s.var, s.val)
      [] s.op = "load_acquire" ->
            IF IsCxx(b) THEN cxx_io_uring_smp_load_acquire(s.var)
                        ELSE io_uring_smp_load_acquire(s.var)
      [] s.op = "write" -> PlainWrite(s.var, s.val)
      [] s.op = "read" -> PlainRead(s.var)
      [] s.op = "barrier" -> io_uring_barrier
      [] s.op = "mb" -> io_uring_mb
      [] s.op = "rmb" -> io_uring_rmb
      [] s.op = "wmb" -> io_uring_wmb
      [] s.op = "smp_rmb" -> io_uring_smp_rmb
      [] s.op = "smp_wmb" -> io_uring_smp_wmb
      [] s.op = "smp_mb" -> io_uring_smp_mb(b)

\* The client's use of the value a read returns: its register and its loop.
Expand(b, s) ==
    LET ops == Call(b, s)
    IN [i \in 1..Len(ops) |->
          IF ops[i].k = "ld"
          THEN [ops[i] EXCEPT !.src = s.op, !.reg = s.reg, !.until = s.until]
          ELSE [ops[i] EXCEPT !.src = s.op]]

\* The widest access one instruction of the build performs.
WordBytes(b) == IF b = "c_i386" THEN 4 ELSE 8

\* An access wider than the machine word takes one instruction per machine
\* word, low word first.  A std::atomic operation is indivisible.
Lower(b, o) ==
    IF IsCxx(b) \/ o.k \notin {"st", "ld"} \/ o.width <= WordBytes(b)
    THEN << o >>
    ELSE LET W == WordBytes(b)
         IN [i \in 1..(o.width \div W) |->
               [o EXCEPT !.addr = o.addr + (i - 1) * W,
                         !.off = (i - 1) * W,
                         !.width = W,
                         !.bytes = IF o.k = "st"
                                   THEN SubSeq(o.bytes, (i - 1) * W + 1, i * W)
                                   ELSE NoBytes]]

\* What the processor sees of an operation.  An x86 processor issues the
\* instructions in the order the compiler left them in.  A weakly ordered
\* processor does not: the compiler barrier emits no instruction, and a
\* volatile access is an ordinary load or store to it.
Emit(b, o) ==
    IF ~IsWeak(b) THEN << o >>
    ELSE IF o.k = "cbar" THEN << >>
    ELSE << [o EXCEPT !.order = "weak"] >>

EmitAll(b, ops) == Flatten([i \in 1..Len(ops) |-> Emit(b, ops[i])])

Compile(b, stmts) ==
    Flatten([i \in 1..Len(stmts) |->
               Flatten([j \in 1..Len(Expand(b, stmts[i])) |->
                          EmitAll(b, Lower(b, Expand(b, stmts[i])[j]))])])

---------------------------------------------------------------------------
(* What keeps two operations of one context in program order.               *)

\* An asm statement with a "memory" clobber: the compiler moves no memory
\* access across it.
IsClobber(o) == o.k \in {"cbar", "mfence", "lfence", "sfence", "lockadd"}

IsAccess(o) == o.k \in {"st", "ld"}

Overlap(a, b) ==
    /\ IsAccess(a) /\ IsAccess(b)
    /\ a.name = b.name
       \/ (a.addr < b.addr + b.width /\ b.addr < a.addr + a.width)

\* A stronger variant: a compiler that moves no access across a volatile access
Ordered_across_volatile(a, b, between) ==
    \/ IsClobber(a) \/ IsClobber(b)
    \/ \E k \in DOMAIN between : IsClobber(between[k])
    \/ a.vol \/ b.vol
    \/ Overlap(a, b)
    \/ a.until # NoBytes /\ b.k = "st"
    \/ a.order = "acquire"
    \/ b.order = "release"

\* a is before b in program order; TRUE when b may not be issued before a.
Ordered(a, b, between) ==
    \/ IsClobber(a) \/ IsClobber(b)
    \/ \E k \in DOMAIN between : IsClobber(between[k])
    \/ /\ a.vol /\ b.vol                   \* volatile accesses and asm volatile keep their order;
       /\ a.order = "none" /\ b.order = "none"   \* std::atomic is ordered by its memory order alone
    \/ Overlap(a, b)                       \* accesses of one location
    \/ a.until # NoBytes /\ b.k = "st"     \* no store is issued before the loop it follows ends
    \/ a.order = "acquire"                 \* nothing moves before an acquire load
    \/ b.order = "release"                 \* nothing moves after a release store

Issuable(ops, dn, j) ==
    /\ j \in DOMAIN ops
    /\ j \notin dn
    /\ \A i \in 1..(j - 1) :
          i \in dn \/ ~Ordered(ops[i], ops[j], SubSeq(ops, i + 1, j - 1))

---------------------------------------------------------------------------
(* The client programs.                                                     *)

W4(name, addr) == Word(<<name, 0>>, addr, 4, Val(0, 4))

One == Val(1, 4)

Data == Pat(7, 4)

Wr(op, var, val) == Stmt(op, var, val, NoReg, NoBytes)

Rd(op, var, reg) == Stmt(op, var, NoBytes, <<reg, 0>>, NoBytes)

Spin(op, var, reg, until) == Stmt(op, var, NoBytes, <<reg, 0>>, until)

Fence(op) == Stmt(op, NoVar, NoBytes, NoReg, NoBytes)

\* message passing: a 64-bit payload and a flag
Payload == Word(<<"payload", 0>>, 0, 8, Val(0, 8))

Flag == W4("flag", 8)

MPProg(wr, rd) ==
    [c \in Ctx |->
       IF c = 1
       THEN << Wr("write", Payload, Pat(7, 8)), Wr(wr, Flag, One) >>
       ELSE << Spin(rd, Flag, "f", One), Rd("read", Payload, "p") >>]

\* store buffering: two words, each context writes one and reads the other
WA == W4("a", 0)

WB == W4("b", 4)

SBProg(wr, f1, f2, rd) ==
    [c \in Ctx |->
       IF c = 1
       THEN << Wr(wr, WA, One) >> \o f1 \o << Rd(rd, WB, "r") >>
       ELSE << Wr(wr, WB, One) >> \o f2 \o << Rd(rd, WA, "r") >>]

\* store buffering over two 64-bit words
WideA == Word(<<"a", 0>>, 0, 8, Val(0, 8))

WideB == Word(<<"b", 0>>, 8, 8, Val(0, 8))

WideSBProg ==
    [c \in Ctx |->
       IF c = 1
       THEN << Wr("WRITE_ONCE", WideA, Pat(1, 8)), Rd("READ_ONCE", WideB, "r") >>
       ELSE << Wr("WRITE_ONCE", WideB, Pat(1, 8)), Rd("READ_ONCE", WideA, "r") >>]

\* tearing: one write of a pattern over another, one concurrent read
TearWord(w) == Word(<<"x", 0>>, 0, w, Pat(85, w))

TearProg(w) ==
    [c \in Ctx |->
       IF c = 1
       THEN << Wr("WRITE_ONCE", TearWord(w), Pat(170, w)) >>
       ELSE << Rd("READ_ONCE", TearWord(w), "r") >>]

\* indexed message passing: round k writes slot k, then releases index = k
Slot(j) == Word(<<"slot", j>>, 4 * (j - 1), 4, Val(0, 4))

Index(K) == W4("index", 4 * K)

SeqProg(K) ==
    [c \in Ctx |->
       IF c = 1
       THEN Flatten([k \in 1..K |->
                       << Wr("write", Slot(k), Data),
                          Wr("store_release", Index(K), Val(k, 4)) >>])
       ELSE << Rd("load_acquire", Index(K), "idx") >>
            \o [j \in 1..K |-> Stmt("read", Slot(j), NoBytes, <<"s", j>>, NoBytes)]]

\* a reader releases a slot, a writer acquires it and overwrites it
LBSlot == Word(<<"slot", 1>>, 0, 4, Data)

LBProg ==
    [c \in Ctx |->
       IF c = 1
       THEN << Rd("read", LBSlot, "d"), Wr("store_release", W4("flag", 4), One) >>
       ELSE << Spin("load_acquire", W4("flag", 4), "f", One),
               Wr("write", LBSlot, Pat(9, 4)) >>]

\* read-own-write: context 1 writes v and reads it back, context 2 is busy elsewhere
RowProg(v) ==
    [c \in Ctx |->
       IF c = 1
       THEN << Wr("WRITE_ONCE", WA, Val(v, 4)), Rd("READ_ONCE", WA, "r") >>
       ELSE << Wr("WRITE_ONCE", WB, One), Rd("READ_ONCE", WA, "r"),
               Wr("store_release", WB, Val(2, 4)) >>]

\* a loop of reads of a word another context writes
SpinProg ==
    [c \in Ctx |->
       IF c = 1
       THEN << Wr("WRITE_ONCE", WA, One) >>
       ELSE << Spin("READ_ONCE", WA, "r", One) >>]

\* coherence: one publisher writes 1, 2, ..., k to one word of w bytes, by
\* IO_URING_WRITE_ONCE and io_uring_smp_store_release in turn; one observer
\* reads it three times
CohWord(w) == Word(<<"x", 0>>, 0, w, Pat(0, w))

CohProg(w, k) ==
    [c \in Ctx |->
       IF c = 1
       THEN [i \in 1..k |->
               Wr(IF i % 2 = 1 THEN "WRITE_ONCE" ELSE "store_release",
                  CohWord(w), Pat(i, w))]
       ELSE << Rd("READ_ONCE", CohWord(w), "r"),
               Rd("load_acquire", CohWord(w), "q"),
               Rd("READ_ONCE", CohWord(w), "s") >>]

\* frame: one write of a value of v bytes to a word of w bytes that lies
\* between two other words; the other context reads the word behind it
FrameTests == {"FRAME_WRITE_ONCE", "FRAME_store_release"}

GuardLo == Word(<<"g", 0>>, 0, 8, Pat(51, 8))

FrameWord(w) == Word(<<"x", 0>>, 8, w, Pat(85, w))

GuardHi(w) == Word(<<"h", 0>>, 8 + w, 8, Pat(51, 8))

FrameProg(op, w, v) ==
    [c \in Ctx |->
       IF c = 1
       THEN << Wr(op, FrameWord(w), Pat(170, v)) >>
       ELSE << Rd("READ_ONCE", GuardHi(w), "h") >>]

T(name, n) == [name |-> name, n |-> n]

\* a test of a width w and a count k has n = 10 * w + k
WidthOf(t) == t.n \div 10

CountOf(t) == t.n % 10

\* a test of a word of w bytes and a value of v bytes has n = 10 * w + v
ValWidthOf(t) == t.n % 10

Widths == {1, 2, 4, 8}

Tests ==
    {T(x, 0) : x \in {"MP", "MP_relaxed", "SB_smp_mb", "SB_mb", "SB_none",
                      "SB_relacq", "SB_smp_wmb", "SB_smp_rmb", "SB_wmb_rmb",
                      "LBREL", "SPIN", "SB_wide"}}
    \cup {T("TEAR", w) : w \in Widths}
    \cup {T("MPSEQ", k) : k \in 1..MaxRounds}
    \cup {T("ROW", v) : v \in 1..MaxVal}
    \cup {T("COH", 10 * w + k) : w \in {4, 8}, k \in 1..MaxWrites}
    \cup {T(x, 10 * w + v) : x \in FrameTests, w \in Widths, v \in Widths}

Words(t) ==
    CASE t.name \in {"MP", "MP_relaxed"} -> << Payload, Flag >>
      [] t.name = "TEAR" -> << TearWord(t.n) >>
      [] t.name = "COH" -> << CohWord(WidthOf(t)) >>
      [] t.name = "SB_wide" -> << WideA, WideB >>
      [] t.name \in FrameTests -> << GuardLo, FrameWord(WidthOf(t)), GuardHi(WidthOf(t)) >>
      [] t.name = "MPSEQ" -> [j \in 1..(t.n + 1) |-> IF j <= t.n THEN Slot(j) ELSE Index(t.n)]
      [] t.name = "LBREL" -> << LBSlot, W4("flag", 4) >>
      [] OTHER -> << WA, WB >>

Prog(t) ==
    CASE t.name = "MP" -> MPProg("store_release", "load_acquire")
      [] t.name = "MP_relaxed" -> MPProg("WRITE_ONCE", "READ_ONCE")
      [] t.name = "SB_smp_mb" ->
            SBProg("WRITE_ONCE", << Fence("smp_mb") >>, << Fence("smp_mb") >>, "READ_ONCE")
      [] t.name = "SB_mb" ->
            SBProg("WRITE_ONCE", << Fence("mb") >>, << Fence("mb") >>, "READ_ONCE")
      [] t.name = "SB_none" -> SBProg("WRITE_ONCE", << >>, << >>, "READ_ONCE")
      [] t.name = "SB_relacq" -> SBProg("store_release", << >>, << >>, "load_acquire")
      [] t.name = "SB_smp_wmb" ->
            SBProg("WRITE_ONCE", << Fence("smp_wmb") >>, << Fence("smp_wmb") >>, "READ_ONCE")
      [] t.name = "SB_smp_rmb" ->
            SBProg("WRITE_ONCE", << Fence("smp_rmb") >>, << Fence("smp_rmb") >>, "READ_ONCE")
      [] t.name = "SB_wmb_rmb" ->
            SBProg("WRITE_ONCE", << Fence("wmb") >>, << Fence("rmb") >>, "READ_ONCE")
      [] t.name = "TEAR" -> TearProg(t.n)
      [] t.name = "MPSEQ" -> SeqProg(t.n)
      [] t.name = "LBREL" -> LBProg
      [] t.name = "ROW" -> RowProg(t.n)
      [] t.name = "SPIN" -> SpinProg
      [] t.name = "COH" -> CohProg(WidthOf(t), CountOf(t))
      [] t.name = "SB_wide" -> WideSBProg
      [] t.name = "FRAME_WRITE_ONCE" -> FrameProg("WRITE_ONCE", WidthOf(t), ValWidthOf(t))
      [] t.name = "FRAME_store_release" -> FrameProg("store_release", WidthOf(t), ValWidthOf(t))

FenceOps == {"barrier", "mb", "rmb", "wmb", "smp_rmb", "smp_wmb", "smp_mb"}

X86Ops == {"mb", "rmb", "wmb", "smp_mb"}

\* The C++ branch of the header defines no fence, and its templates take the
\* word and the value of one type T; the fence instructions of the C branch
\* are x86 instructions.
Applicable(b, t) ==
    /\ IsCxx(b) => \A c \in Ctx : \A i \in DOMAIN Prog(t)[c] : Prog(t)[c][i].op \notin FenceOps
    /\ IsCxx(b) => \A c \in Ctx : \A i \in DOMAIN Prog(t)[c] :
                      Prog(t)[c][i].val # NoBytes
                         => Len(Prog(t)[c][i].val) = Prog(t)[c][i].var.width
    /\ IsWeak(b) => \A c \in Ctx : \A i \in DOMAIN Prog(t)[c] : Prog(t)[c][i].op \notin X86Ops

---------------------------------------------------------------------------
(* The machine.  A state is handled as a record so that a step is a         *)
(* function of it: st.done, st.regs, st.mem, st.buf, st.stack, st.hist,     *)
(* st.tview, st.hung.                                                       *)

Cur == [done |-> done, regs |-> regs, mem |-> mem, buf |-> buf, stack |-> stack,
        hist |-> hist, tview |-> tview, hung |-> hung]

Names(t) == {Words(t)[i].name : i \in DOMAIN Words(t)}

MemSize(t) == Max({Words(t)[i].addr + Words(t)[i].width : i \in DOMAIN Words(t)})

InitByte(t, a) ==
    LET in == {i \in DOMAIN Words(t) :
                 Words(t)[i].addr <= a /\ a < Words(t)[i].addr + Words(t)[i].width}
    IN IF in = {} THEN 0
       ELSE LET w == Words(t)[CHOOSE i \in in : TRUE] IN w.init[a - w.addr + 1]

WordIndex(t, name) == (CHOOSE i \in DOMAIN Words(t) : Words(t)[i].name = name)

RegsOf(ops) == {ops[i].reg : i \in {j \in DOMAIN ops : ops[j].k = "ld"}}

RegWidth(ops, r) == ops[CHOOSE i \in DOMAIN ops : ops[i].k = "ld" /\ ops[i].reg = r].rw

\* f itself, as an explicit function: TLC compares updates of such functions.
Explicit(f) == f @@ << >>

InitState(b, t, ops) ==
    [done  |-> [c \in Ctx |-> {i \in DOMAIN ops[c] : ops[c][i].k = "cbar"}],
     regs  |-> Explicit([c \in Ctx |-> Explicit([r \in RegsOf(ops[c]) |-> Unset(RegWidth(ops[c], r))])]),
     mem   |-> IF IsCxx(b) THEN << >> ELSE [a \in 0..(MemSize(t) - 1) |-> InitByte(t, a)],
     buf   |-> [c \in Ctx |-> << >>],
     stack |-> [c \in Ctx |-> Val(0, 4)],
     hist  |-> IF IsCxx(b)
               THEN Explicit([n \in Names(t) |->
                       << [val |-> Words(t)[WordIndex(t, n)].init,
                           view |-> Explicit([m \in Names(t) |-> 1])] >>])
               ELSE << >>,
     tview |-> IF IsCxx(b) THEN Explicit([c \in Ctx |-> Explicit([n \in Names(t) |-> 1])]) ELSE << >>,
     hung  |-> [c \in Ctx |-> FALSE]]

\* ---- the C build: x86 with a FIFO store buffer per context ----

\* The byte a context reads at an address: its own newest buffered store to
\* it, or else memory.
ByteAt(m, sb, a) ==
    LET hits == {i \in DOMAIN sb : sb[i].addr <= a /\ a < sb[i].addr + Len(sb[i].bytes)}
    IN IF hits = {} THEN m[a]
       ELSE sb[Max(hits)].bytes[a - sb[Max(hits)].addr + 1]

ReadBytes(m, sb, addr, width) == [i \in 1..width |-> ByteAt(m, sb, addr + i - 1)]

Splice(old, off, v) ==
    [i \in DOMAIN old |-> IF off < i /\ i <= off + Len(v) THEN v[i - off] ELSE old[i]]

\* little-endian addition modulo 2^(8 * width)
RECURSIVE AddCarry(_, _, _)
AddCarry(x, y, carry) ==
    IF x = << >> THEN << >>
    ELSE LET sum == Head(x) + Head(y) + carry
         IN << sum % 256 >> \o AddCarry(Tail(x), Tail(y), sum \div 256)

AddBytes(x, y) == AddCarry(x, y, 0)

\* mov to memory: the store enters the context's store buffer
CStore(st, c, j, o) ==
    { [st EXCEPT !.buf[c] = Append(@, [addr |-> o.addr, bytes |-> o.bytes]),
                 !.done[c] = @ \cup {j}] }

\* The end of a read: the value goes to the register, or the loop goes round.
\* The compiler need not repeat a read that is not volatile: it may keep the
\* value of the first one in a register, and the loop then never ends.
AfterRead(st, c, j, o, v) ==
    IF o.until # NoBytes /\ v # o.until
    THEN IF o.vol THEN {st} ELSE {st, [st EXCEPT !.hung[c] = TRUE]}
    ELSE { [st EXCEPT !.regs[c][o.reg] = Splice(@, o.off, v),
                      !.done[c] = @ \cup {j}] }

\* A faulty variant: a load that does not look into the context's own store buffer
CLoad_memory_only(st, c, j, o) ==
    AfterRead(st, c, j, o, ReadBytes(st.mem, << >>, o.addr, o.width))

\* mov from memory
CLoad(st, c, j, o) ==
    AfterRead(st, c, j, o, ReadBytes(st.mem, st.buf[c], o.addr, o.width))

\* A faulty variant: a locked instruction that waits for every context's store buffer
CLockAdd_waits_for_all(st, c, j, o) ==
    IF \E d \in Ctx : st.buf[d] # << >> THEN {}
    ELSE { [st EXCEPT !.stack[c] = AddBytes(@, o.bytes), !.done[c] = @ \cup {j}] }

\* lock; addl $0, off(%sp): a locked instruction waits for the context's store
\* buffer to be empty and adds to the stack word in memory
CLockAdd(st, c, j, o) ==
    IF st.buf[c] # << >> THEN {}
    ELSE { [st EXCEPT !.stack[c] = AddBytes(@, o.bytes), !.done[c] = @ \cup {j}] }

\* mfence waits for the context's store buffer to be empty
CMFence(st, c, j, o) ==
    IF st.buf[c] # << >> THEN {} ELSE { [st EXCEPT !.done[c] = @ \cup {j}] }

\* lfence, sfence: loads are issued in order and the store buffer is FIFO, so
\* neither waits for anything
CLightFence(st, c, j, o) == { [st EXCEPT !.done[c] = @ \cup {j}] }

\* The oldest buffered store of a context reaches memory.
DrainStep(st, c) ==
    IF st.buf[c] = << >> THEN {}
    ELSE LET e == Head(st.buf[c])
         IN { [st EXCEPT !.buf[c] = Tail(@),
                         !.mem = [a \in DOMAIN st.mem |->
                                    IF e.addr <= a /\ a < e.addr + Len(e.bytes)
                                    THEN e.bytes[a - e.addr + 1] ELSE st.mem[a]]] }

\* ---- the C++ build: messages and views ----

Join(v1, v2) == [n \in DOMAIN v1 |-> IF v1[n] >= v2[n] THEN v1[n] ELSE v2[n]]

\* A store adds the newest message of its word.  A release store's message
\* carries the writer's view; any other carries only itself.
NStore(st, c, j, o) ==
    LET idx == Len(st.hist[o.name]) + 1
        tv == [st.tview[c] EXCEPT ![o.name] = idx]
        mv == IF o.order = "release" THEN tv
              ELSE [n \in DOMAIN tv |-> IF n = o.name THEN idx ELSE 1]
    IN { [st EXCEPT !.hist[o.name] = Append(@, [val |-> o.bytes, view |-> mv]),
                    !.tview[c] = tv,
                    !.done[c] = @ \cup {j}] }

\* The values an ordinary read may return when it races with the writes of
\* vals: the behaviour is undefined, and what a build produces is, for each
\* machine word of the object, the word of one of them.
Racy(vals, width) ==
    LET W == WordBytes("c_i386")
    IN { [i \in 1..width |-> from[(i - 1) \div W][i]] :
           from \in [0..((width - 1) \div W) -> vals] }

\* A load reads any message of its word not older than the reader's view of
\* the word.  An acquire load takes over the view the message carries.  An
\* ordinary load that has more than one such message races with a write.
NLoad(st, c, j, o) ==
    UNION { LET msg == st.hist[o.name][idx]
                tv1 == [st.tview[c] EXCEPT ![o.name] = idx]
                tv == IF o.order = "acquire" THEN Join(tv1, msg.view) ELSE tv1
                vals == IF o.order = "plain"
                        THEN Racy({st.hist[o.name][n].val :
                                     n \in idx..Len(st.hist[o.name])}, o.width)
                        ELSE {msg.val}
            IN UNION { AfterRead([st EXCEPT !.tview[c] = tv], c, j, o, v) : v \in vals }
          : idx \in st.tview[c][o.name]..Len(st.hist[o.name]) }

\* ---- one operation of a context ----

StepOp(b, st, c, j, o) ==
    CASE o.k = "st" -> IF IsCxx(b) THEN NStore(st, c, j, o) ELSE CStore(st, c, j, o)
      [] o.k = "ld" -> IF IsCxx(b) THEN NLoad(st, c, j, o) ELSE CLoad(st, c, j, o)
      [] o.k = "lockadd" -> CLockAdd(st, c, j, o)
      [] o.k = "mfence" -> CMFence(st, c, j, o)
      [] o.k \in {"lfence", "sfence"} -> CLightFence(st, c, j, o)
      [] OTHER -> {}

\* The states a context reaches by issuing one operation of statement kind src.
StepsOf(b, ops, st, c, src) ==
    IF st.hung[c] THEN {}
    ELSE UNION { StepOp(b, st, c, j, ops[c][j])
               : j \in {i \in DOMAIN ops[c] :
                          ops[c][i].src = src /\ Issuable(ops[c], st.done[c], i)} }

Commit(n) ==
    /\ done' = n.done
    /\ regs' = n.regs
    /\ mem' = n.mem
    /\ buf' = n.buf
    /\ stack' = n.stack
    /\ hist' = n.hist
    /\ tview' = n.tview
    /\ hung' = n.hung
    /\ UNCHANGED <<build, test, code>>

---------------------------------------------------------------------------
(* Initial states: a build and a client program the build can compile.      *)

InitWith(bs) ==
    \E b \in bs, t \in Tests :
       /\ Applicable(b, t)
       /\ build = b
       /\ test = t
       /\ code = [c \in Ctx |-> Compile(b, Prog(t)[c])]
       /\ LET i == InitState(b, t, [c \in Ctx |-> Compile(b, Prog(t)[c])])
          IN /\ done = i.done
             /\ regs = i.regs
             /\ mem = i.mem
             /\ buf = i.buf
             /\ stack = i.stack
             /\ hist = i.hist
             /\ tview = i.tview
             /\ hung = i.hung

Init == InitWith(Builds)

(* One action per primitive of the header, and per ordinary access.         *)

WriteOnce(c) == \E n \in StepsOf(build, code, Cur, c, "WRITE_ONCE") : Commit(n)

ReadOnce(c) == \E n \in StepsOf(build, code, Cur, c, "READ_ONCE") : Commit(n)

StoreRelease(c) == \E n \in StepsOf(build, code, Cur, c, "store_release") : Commit(n)

LoadAcquire(c) == \E n \in StepsOf(build, code, Cur, c, "load_acquire") : Commit(n)

SmpMb(c) == \E n \in StepsOf(build, code, Cur, c, "smp_mb") : Commit(n)

Mb(c) == \E n \in StepsOf(build, code, Cur, c, "mb") : Commit(n)

Rmb(c) == \E n \in StepsOf(build, code, Cur, c, "rmb") : Commit(n)

Wmb(c) == \E n \in StepsOf(build, code, Cur, c, "wmb") : Commit(n)

Write(c) == \E n \in StepsOf(build, code, Cur, c, "write") : Commit(n)

Read(c) == \E n \in StepsOf(build, code, Cur, c, "read") : Commit(n)

Drain(c) == \E n \in DrainStep(Cur, c) : Commit(n)

Next ==
    \E c \in Ctx :
       \/ WriteOnce(c)
       \/ ReadOnce(c)
       \/ StoreRelease(c)
       \/ LoadAcquire(c)
       \/ SmpMb(c)
       \/ Mb(c)
       \/ Rmb(c)
       \/ Wmb(c)
       \/ Write(c)
       \/ Read(c)
       \/ Drain(c)

Spec == Init /\ [][Next]_vars

\* A context keeps running and a store buffer keeps draining: every context's
\* next operation and every buffered store is eventually taken.
Issue(c) ==
    \/ WriteOnce(c) \/ ReadOnce(c) \/ StoreRelease(c) \/ LoadAcquire(c)
    \/ SmpMb(c) \/ Mb(c) \/ Rmb(c) \/ Wmb(c) \/ Write(c) \/ Read(c)

\* The same clients, also on the weakly ordered machine.
ArchSpec == InitWith(Builds \cup WeakBuilds) /\ [][Next]_vars

FairSpec ==
    /\ Init /\ [][Next]_vars
    /\ \A c \in Ctx : WF_vars(Issue(c)) /\ WF_vars(Drain(c))

---------------------------------------------------------------------------
(* The outcomes of a client program: the registers of the states no step    *)
(* leaves, over every run from a state.                                     *)

SrcOps == {"WRITE_ONCE", "READ_ONCE", "store_release", "load_acquire",
           "smp_mb", "mb", "rmb", "wmb", "write", "read"} \cup FenceOps

Succ(b, ops, st) ==
    (UNION {StepsOf(b, ops, st, c, src) : c \in Ctx, src \in SrcOps}
       \cup UNION {DrainStep(st, c) : c \in Ctx}) \ {st}

RECURSIVE Outcomes(_, _, _)
Outcomes(b, ops, st) ==
    LET nx == Succ(b, ops, st)
    IN IF nx = {} THEN {st.regs} ELSE UNION {Outcomes(b, ops, n) : n \in nx}

AtStart == Cur = InitState(build, test, code)

Reg(c, r) == regs[c][<<r, 0>>]

IsRead(v) == \A i \in DOMAIN v : v[i] # -1

Zero == Val(0, 4)

---------------------------------------------------------------------------
(* The claims.                                                              *)

\* C1: message passing.  The publisher writes the payload and then calls
\* io_uring_smp_store_release(flag, 1); the observer repeats
\* io_uring_smp_load_acquire(flag) until it returns 1 and then reads the
\* payload.  Every byte the observer reads of the payload is a byte of the
\* written payload, never the initial one, and the completed read is the whole
\* payload, in the C builds and in the C++ build.
C1_MessagePassing ==
    test.name = "MP" =>
       /\ \A i \in 1..8 : Reg(2, "p")[i] \in {-1, 7}
       /\ IsRead(Reg(2, "p")) => Reg(2, "f") = One /\ Reg(2, "p") = Pat(7, 8)

C1_Witness ==
    /\ test.name = "MP" /\ build = "c_i386"
    /\ Reg(2, "f") = One /\ Reg(2, "p") = Pat(7, 8)

\* C2: store buffering with io_uring_smp_mb between the write and the read of
\* each context: the two reads never both return 0.
C2_StoreBufferFenced ==
    test.name = "SB_smp_mb" => ~(Reg(1, "r") = Zero /\ Reg(2, "r") = Zero)

C2_Witness ==
    /\ test.name = "SB_smp_mb"
    /\ IsRead(Reg(1, "r")) /\ IsRead(Reg(2, "r"))
    /\ Reg(1, "r") = One /\ Reg(2, "r") = Zero

\* C3: no tearing.  An IO_URING_READ_ONCE of a naturally aligned word that
\* runs concurrently with one IO_URING_WRITE_ONCE of it returns the whole value
\* before the write or the whole value after it, for the widths of 8, 16, 32
\* and 64 bits (1, 2, 4 and 8 bytes).
C3_NoTearing ==
    (test.name = "TEAR" /\ IsRead(Reg(2, "r"))) =>
       Reg(2, "r") \in {Pat(85, test.n), Pat(170, test.n)}

\* C4: indexed message passing.  The publisher's round k writes slot k and
\* then calls io_uring_smp_store_release(index, k).  When the observer's
\* io_uring_smp_load_acquire(index) has returned k, each of its later reads of
\* a slot j <= k returns what the publisher wrote to that slot.
C4_PairingWithLaterValue ==
    test.name = "MPSEQ" =>
       \A j \in 1..test.n :
          (IsRead(Reg(2, "idx")) /\ j <= Reg(2, "idx")[1] /\ IsRead(regs[2][<<"s", j>>]))
             => regs[2][<<"s", j>>] = Data

C4_Witness ==
    /\ test.name = "MPSEQ" /\ test.n >= 2
    /\ Reg(2, "idx") = Val(test.n, 4)
    /\ \A j \in 1..test.n : regs[2][<<"s", j>>] = Data

\* C5: context A reads a slot and then calls io_uring_smp_store_release(flag,
\* 1); context B calls io_uring_smp_load_acquire(flag) until it returns 1 and
\* then overwrites the slot.  A's read never returns the value B wrote.
C5_ReleaseOrdersPriorLoads ==
    test.name = "LBREL" => Reg(1, "d") # Pat(9, 4)

C5_Witness ==
    /\ test.name = "LBREL"
    /\ Reg(1, "d") = Data
    /\ Reg(2, "f") = One
    /\ IF IsCxx(build) THEN Len(hist[<<"slot", 1>>]) = 2
       ELSE \A a \in 0..3 : mem[a] = 9

\* C6: read-own-write.  IO_URING_WRITE_ONCE(w, v) followed at once by
\* IO_URING_READ_ONCE(w) in one context returns v, whatever the other context
\* does to another word, also while the store is still in the store buffer.
C6_ReadOwnWrite ==
    (test.name = "ROW" /\ IsRead(Reg(1, "r"))) => Reg(1, "r") = Val(test.n, 4)

C6_Witness ==
    /\ test.name = "ROW" /\ ~IsCxx(build)
    /\ Reg(1, "r") = Val(test.n, 4)
    /\ buf[1] # << >>
    /\ \A a \in 0..3 : mem[a] = 0

\* C7: non-elision.  One context loops on IO_URING_READ_ONCE(w) until it
\* returns 1 and the other calls IO_URING_WRITE_ONCE(w, 1), the word being 0
\* at first.  Under fair scheduling the loop eventually reads 1: every
\* iteration reads the word afresh.
SpinHasRead == test.name = "SPIN" /\ Reg(2, "r") = One

C7_NonElision == (test.name = "SPIN") => <>SpinHasRead

C7_Witness == SpinHasRead /\ build = "c_x86_64"

\* C8: wait-freedom and totality.  An operation a context may issue has a
\* step as soon as the context's own store buffer allows it (the two fence
\* instructions wait for the context's own buffer, nothing else waits at all),
\* whatever state the other contexts are in; the step completes the call; and
\* the buffered stores a context has to wait for are never more than the
\* stores of its own program.
NStores(ops) == Cardinality({i \in DOMAIN ops : ops[i].k = "st"})

C8_WaitFree ==
    \A c \in Ctx :
       /\ Len(buf[c]) <= NStores(code[c])
       /\ ~hung[c]
       /\ \A j \in DOMAIN code[c] :
             (/\ Issuable(code[c], done[c], j)
              /\ buf[c] = << >> \/ code[c][j].k \notin {"lockadd", "mfence"})
             => /\ StepOp(build, Cur, c, j, code[c][j]) # {}
                /\ \A n \in StepOp(build, Cur, c, j, code[c][j]) :
                      j \in n.done[c] \/ code[c][j].until # NoBytes

C8_Witness ==
    /\ test.name = "SB_smp_mb"
    /\ buf[1] = << >> /\ buf[2] # << >>
    /\ \E j \in DOMAIN code[1] :
          /\ code[1][j].k = "lockadd"
          /\ Issuable(code[1], done[1], j)
          /\ StepOp(build, Cur, 1, j, code[1][j]) # {}

\* C9: no sequential consistency across two words without a full fence.  In
\* the store-buffer test without fences, with IO_URING_WRITE_ONCE and
\* IO_URING_READ_ONCE and also with io_uring_smp_store_release and
\* io_uring_smp_load_acquire, some run from the start ends with both reads
\* having returned 0.
C9_StoreBufferUnfenced ==
    (AtStart /\ test.name \in {"SB_none", "SB_relacq"}) =>
       \E o \in Outcomes(build, code, Cur) : o[1][<<"r", 0>>] = Zero /\ o[2][<<"r", 0>>] = Zero

C9_Witness ==
    /\ test.name = "SB_relacq"
    /\ Reg(1, "r") = Zero /\ Reg(2, "r") = Zero

\* C10: relaxed access gives no ordering.  In the message-passing test with
\* IO_URING_WRITE_ONCE and IO_URING_READ_ONCE on the flag, some run from the
\* start ends with the observer having read flag = 1 and then the initial
\* (stale) payload.
C10_RelaxedNoOrdering ==
    (AtStart /\ test.name = "MP_relaxed") =>
       \E o \in Outcomes(build, code, Cur) :
          o[2][<<"f", 0>>] = One /\ o[2][<<"p", 0>>] = Val(0, 8)

C10_Witness ==
    /\ test.name = "MP_relaxed"
    /\ Reg(2, "f") = One /\ Reg(2, "p") = Val(0, 8)

\* C11: the manual composition depends on the architecture.  The release
\* store (compiler barrier, volatile store) and the acquire load (volatile
\* load, compiler barrier) of the C branch give message passing on x86 (total
\* store order): the observer never reads a stale payload byte.  On a machine
\* that may reorder a context's stores, or its loads, the same composition has
\* a run in which the observer reads flag = 1 and then the initial payload.
C11_ArchitectureDependence ==
    test.name = "MP" =>
       /\ build \in {"c_i386", "c_x86_64"} =>
             /\ \A i \in 1..8 : Reg(2, "p")[i] # 0
             /\ IsRead(Reg(2, "p")) => Reg(2, "f") = One
       /\ (AtStart /\ IsWeak(build)) =>
             \E o \in Outcomes(build, code, Cur) :
                o[2][<<"f", 0>>] = One /\ o[2][<<"p", 0>>] = Val(0, 8)

C11_Witness ==
    /\ test.name = "MP" /\ IsWeak(build)
    /\ Reg(2, "f") = One /\ Reg(2, "p") = Val(0, 8)

\* C12: the step order inside the manual-fence primitives (C builds).
\* io_uring_smp_store_release is the compiler barrier and then its one write:
\* when the write has been issued, every operation the caller placed before
\* the call has been issued.  io_uring_smp_load_acquire is its one read and
\* then the compiler barrier, and its value is that read's: as long as the
\* read has not been issued, no operation the caller placed after the call has
\* been, and once it has, the result is assigned.
CountOps(ops, src, k) ==
    Cardinality({j \in DOMAIN ops : ops[j].src = src /\ ops[j].k = k /\ ops[j].off = 0})

CountStmts(stmts, op) == Cardinality({i \in DOMAIN stmts : stmts[i].op = op})

C12_StepOrder ==
    ~IsCxx(build) =>
       \A c \in Ctx :
          /\ CountOps(code[c], "store_release", "st") = CountStmts(Prog(test)[c], "store_release")
          /\ CountOps(code[c], "load_acquire", "ld") = CountStmts(Prog(test)[c], "load_acquire")
          /\ \A j \in DOMAIN code[c] :
                /\ (code[c][j].src = "store_release" /\ code[c][j].k = "st") =>
                      /\ \E i \in 1..(j - 1) :
                            /\ code[c][i].k = "cbar" /\ code[c][i].src = "store_release"
                            /\ \A m \in (i + 1)..(j - 1) :
                                  code[c][m].k = "st" /\ code[c][m].name = code[c][j].name
                      /\ j \in done[c] => \A i \in 1..(j - 1) : i \in done[c]
                /\ (code[c][j].src = "load_acquire" /\ code[c][j].k = "ld") =>
                      /\ \E i \in (j + 1)..Len(code[c]) :
                            /\ code[c][i].k = "cbar" /\ code[c][i].src = "load_acquire"
                            /\ \A m \in (j + 1)..(i - 1) :
                                  code[c][m].k = "ld" /\ code[c][m].name = code[c][j].name
                      /\ j \notin done[c] =>
                            \A i \in (j + 1)..Len(code[c]) :
                               i \in done[c] => code[c][i].k = "cbar"
                      /\ j \in done[c] =>
                            \A i \in 1..code[c][j].width :
                               regs[c][code[c][j].reg][code[c][j].off + i] # -1

C12_Witness ==
    /\ test.name = "MP" /\ build = "c_x86_64"
    /\ done[1] = DOMAIN code[1]
    /\ Reg(2, "f") = One /\ Reg(2, "p") = Unset(8)

\* C13: the directional fences are weaker than the full fence.
\* io_uring_smp_wmb and io_uring_smp_rmb are compiler barriers only: the
\* store-buffer test with either of them in both contexts has a run that ends
\* with both reads having returned 0, and with io_uring_smp_mb it has none.
BothZero(o) == o[1][<<"r", 0>>] = Zero /\ o[2][<<"r", 0>>] = Zero

C13_DirectionalFencesWeaker ==
    AtStart =>
       /\ test.name \in {"SB_smp_wmb", "SB_smp_rmb"} =>
             /\ \A c \in Ctx : \A j \in DOMAIN code[c] :
                   code[c][j].src \in {"smp_wmb", "smp_rmb"} => code[c][j].k = "cbar"
             /\ \E o \in Outcomes(build, code, Cur) : BothZero(o)
       /\ test.name = "SB_smp_mb" =>
             \A o \in Outcomes(build, code, Cur) : ~BothZero(o)

C13_Witness ==
    /\ test.name \in {"SB_smp_wmb", "SB_smp_rmb"}
    /\ Reg(1, "r") = Zero /\ Reg(2, "r") = Zero

\* C14: per-word coherence.  One publisher writes v1, ..., vk to one shared
\* word in that order through IO_URING_WRITE_ONCE or
\* io_uring_smp_store_release.  Every read of the word through
\* IO_URING_READ_ONCE or io_uring_smp_load_acquire returns the initial value
\* or one of the vi, and of two successive reads of one observer the later
\* never returns an earlier value than the first.
Written(t) == {Pat(i, WidthOf(t)) : i \in 0..CountOf(t)}

C14_PerWordCoherence ==
    test.name = "COH" =>
       /\ \A x \in {"r", "q", "s"} : IsRead(Reg(2, x)) => Reg(2, x) \in Written(test)
       /\ \A p \in {<<"r", "q">>, <<"q", "s">>} :
             (IsRead(Reg(2, p[1])) /\ IsRead(Reg(2, p[2])))
                => Reg(2, p[1])[1] <= Reg(2, p[2])[1]

\* The same for the words one instruction of the build reads and writes.
CoherenceOfMachineWords ==
    WidthOf(test) <= WordBytes(build) => C14_PerWordCoherence

\* C15: frame of a write.  IO_URING_WRITE_ONCE(var, val) and
\* io_uring_smp_store_release(p, v) change the bytes of the target word and no
\* other memory location, for target words of 8, 16, 32 and 64 bits and a
\* value expression of any of these widths: every byte outside the word keeps
\* its value, and once the write has reached memory the word holds the value
\* converted to the word's width.
InWord(w, a) == w.addr <= a /\ a < w.addr + w.width

Converted(val, w) ==
    { b \in [1..w -> 0..255] :
        /\ \A i \in 1..w : i <= Len(val) => b[i] = val[i]
        /\ \E e \in {0, 255} : \A i \in 1..w : i > Len(val) => b[i] = e }

C15_FrameOfWrite ==
    test.name \in FrameTests =>
       LET x == FrameWord(WidthOf(test))
           v == Pat(170, ValWidthOf(test))
           landed == done[1] = DOMAIN code[1] /\ buf[1] = << >>
       IN IF IsCxx(build)
          THEN /\ \A n \in Names(test) \ {x.name} : Len(hist[n]) = 1
               /\ landed => hist[x.name][Len(hist[x.name])].val \in Converted(v, x.width)
          ELSE /\ \A a \in DOMAIN mem : ~InWord(x, a) => mem[a] = InitByte(test, a)
               /\ landed => ReadBytes(mem, << >>, x.addr, x.width) \in Converted(v, x.width)

\* The same when the value expression has the type of the word.
FrameOfWriteOfOneType ==
    WidthOf(test) = ValWidthOf(test) => C15_FrameOfWrite

\* C16: the two realizations agree.  For the message-passing and the
\* store-buffer clients, every final outcome of the manual-fence path on x86
\* is a final outcome the native path allows for the same client.
OutcomeTests == {"MP", "MP_relaxed", "SB_none", "SB_relacq", "SB_wide"}

NativeOutcomes(t) ==
    LET ops == [c \in Ctx |-> Compile("cxx", Prog(t)[c])]
    IN Outcomes("cxx", ops, InitState("cxx", t, ops))

C16_RealizationsAgree ==
    (AtStart /\ build \in {"c_i386", "c_x86_64"} /\ test.name \in OutcomeTests)
       => Outcomes(build, code, Cur) \subseteq NativeOutcomes(test)

\* The same for the clients whose shared words one instruction reads and writes.
AgreeOnMachineWords ==
    (\A c \in Ctx : \A j \in DOMAIN code[c] : code[c][j].off = 0 \/ ~code[c][j].vol)
       => C16_RealizationsAgree

\* C17: fences and reads change no memory value.  A step of
\* IO_URING_READ_ONCE, io_uring_smp_load_acquire, io_uring_smp_mb (a locked
\* add of 0 to a stack location), io_uring_mb, io_uring_rmb or io_uring_wmb
\* leaves every shared word, every store on its way to memory and every
\* stack location as it was; io_uring_barrier, io_uring_smp_rmb and
\* io_uring_smp_wmb are no operation of the machine at all.
MemoryUnchanged == mem' = mem /\ buf' = buf /\ stack' = stack /\ hist' = hist

C17_FencesAndReadsKeepMemory ==
    [][/\ \A c \in Ctx :
             (\/ ReadOnce(c) \/ LoadAcquire(c)
              \/ SmpMb(c) \/ Mb(c) \/ Rmb(c) \/ Wmb(c)) => MemoryUnchanged
       /\ \A c \in Ctx : \A j \in DOMAIN code[c] :
             code[c][j].src \in {"barrier", "smp_rmb", "smp_wmb"}
                => StepOp(build, Cur, c, j, code[c][j]) = {}]_vars

C17_Witness ==
    /\ test.name = "SB_smp_mb"
    /\ \E j \in done[1] : code[1][j].k = "lockadd"
    /\ mem[0] = 1
    /\ IsRead(Reg(1, "r"))
    /\ stack[1] = Val(0, 4)

=============================================================================
